---- MODULE Spec2Model ----
(***************************************************************************)
(* Phishing_Trainer: tracking links, click attribution and the target      *)
(* state machine.                                                          *)
(*                                                                         *)
(* Strings are sequences of one-character strings, so that concatenation   *)
(* and character classes are computed as Python computes them.  An         *)
(* optional value is <<>> (None) or <<v>>.                                 *)
(***************************************************************************)
EXTENDS Integers, Sequences, FiniteSets, TLC

VARIABLES
    now,             \* the wall clock read by time.time() / datetime.now()
    campaigns_file,  \* contents of data/campaigns.json
    clicks_data,     \* TrackingService.clicks_data (in memory)
    clicks_file,     \* contents of data/clicks.json
    uuid_next,       \* number of uuid4() values drawn so far
    campaigns,       \* the campaigns held in memory: CampaignManager.campaigns,
                     \* st.session_state.campaigns, or loaded Campaign objects
    last,            \* the last finished call: operation, target, result
    signer,          \* a sign / verify exchange: its inputs and its results
    procs,           \* click requests in flight: position, snapshot, host lock
    links,           \* the tracking links generated so far, with their inputs
    refs,            \* for each campaign in memory, the name of the list object
                     \* its 'targets' / 'recipients' key points at: campaigns
                     \* with one name share the list and the dicts in it
    other_clicks_data  \* clicks_data of a second TrackingService instance

vars == <<now, campaigns_file, clicks_data, clicks_file, uuid_next, campaigns, last,
          signer, procs, links, refs, other_clicks_data>>

\* the state of the scenarios an action takes no part in
\* the list objects and the second instance, for the actions that keep them
apart == <<refs, other_clicks_data>>

idle == <<signer, procs, links, apart>>

----------------------------------------------------------------------------
(* Bounds of the model *)

MaxTime == 1
MaxEvents == 2
MaxCount == 2
MaxScore == 1
MaxIdLen == 2
MaxSigLen == 1
MaxLinks == 2
MaxTargets == 2

----------------------------------------------------------------------------
(* Values *)

None == <<>>
Some(v) == <<v>>

Cid1 == <<"c", "1">>
CidX == <<"c", "x">>
Rid1 == <<"t", "1">>
Rid2 == <<"t", "2">>
RidX == <<"t", "x">>
Empty == <<>>

EmptyDict == [k \in {} |-> k]

\* every campaign of a dict read with json.load has a list of its own
OwnLists(camps) == [c \in DOMAIN camps |-> c]

----------------------------------------------------------------------------
(* Signer: TrackingService._generate_signature / verify_signature *)

SecretKey == <<"default-secret-key">>

\* one character outside ASCII (U+00E9), written as a token
NonAsciiChars == {"U+00E9"}

\* hmac.new(key, msg, sha256).hexdigest(): the digest is kept as the term it
\* is computed from, i.e. HMAC-SHA256 is taken to be collision free; a string
\* that is not a digest of this key carries its own text.
HmacSha256Hex(key, msg) == [mac |-> TRUE, key |-> key, text |-> msg]

RawString(s) == [mac |-> FALSE, key |-> <<>>, text |-> s]

\* f"{campaign_id}|{recipient_id}"
Message(campaign_id, recipient_id) == campaign_id \o <<"|">> \o recipient_id

\* a signature that also covers the time of signing
generate_signature_timestamped(campaign_id, recipient_id) ==
    HmacSha256Hex(SecretKey, Message(campaign_id, recipient_id) \o <<ToString(now)>>)

generate_signature(campaign_id, recipient_id) ==
    HmacSha256Hex(SecretKey, Message(campaign_id, recipient_id))

IsAscii(s) == s.mac \/ \A i \in 1..Len(s.text) : s.text[i] \notin NonAsciiChars

\* hmac.compare_digest on two str: TypeError unless both are ASCII
compare_digest(a, b) ==
    IF IsAscii(a) /\ IsAscii(b)
    THEN [raised |-> FALSE, value |-> (a = b)]
    ELSE [raised |-> TRUE, value |-> FALSE]

verify_signature(campaign_id, recipient_id, signature) ==
    compare_digest(signature, generate_signature(campaign_id, recipient_id))

----------------------------------------------------------------------------
(* Persistence Gateway: phishing_app/persistence.py *)

\* json.load of the file; any exception is logged and {} is returned
load_campaigns(read_ok) == IF read_ok THEN campaigns_file ELSE EmptyDict

\* json.dump to the file; any exception is logged and swallowed
save_campaigns(data, write_ok) == IF write_ok THEN data ELSE campaigns_file

BaseUrl == <<"http://localhost:8501/track">>

generate_tracking_url(campaign_id, recipient_id) ==
    BaseUrl \o <<"?cid=">> \o campaign_id \o <<"&rid=">> \o recipient_id

\* index of the first recipient with this id, 0 when there is none
FirstIndex(recipients, recipient_id) ==
    LET hits == {i \in 1..Len(recipients) : recipients[i].id = recipient_id}
    IN  IF hits = {} THEN 0 ELSE CHOOSE i \in hits : \A j \in hits : i <= j

\* the loop body with the status assignment left out
MarkClickedKeepsStatus(recipient) ==
    [recipient EXCEPT !.click_ts = Some(now)]

\* the loop body of track_click_and_save on the matching recipient
MarkClicked(recipient) ==
    [recipient EXCEPT !.click_ts = Some(now), !.status = "clicked"]

\* a recorder that also marks the campaign active
track_click_and_save_activating(campaign_id, recipient_id, read_ok, write_ok) ==
    IF campaign_id = Empty \/ recipient_id = Empty
    THEN [ret |-> FALSE, file |-> campaigns_file]
    ELSE LET loaded == load_campaigns(read_ok)
         IN  IF campaign_id \notin DOMAIN loaded
             THEN [ret |-> FALSE, file |-> campaigns_file]
             ELSE LET recipients == loaded[campaign_id].recipients
                      i == FirstIndex(recipients, recipient_id)
                  IN  IF i = 0
                      THEN [ret |-> FALSE, file |-> campaigns_file]
                      ELSE [ret |-> TRUE,
                            file |-> save_campaigns(
                                [loaded EXCEPT ![campaign_id].recipients[i] =
                                    MarkClicked(recipients[i]),
                                    ![campaign_id].status = "active"], write_ok)]

\* track_click_and_save: [ret, file] where file is the file afterwards
track_click_and_save(campaign_id, recipient_id, read_ok, write_ok) ==
    IF campaign_id = Empty \/ recipient_id = Empty
    THEN [ret |-> FALSE, file |-> campaigns_file]
    ELSE LET loaded == load_campaigns(read_ok)
         IN  IF campaign_id \notin DOMAIN loaded
             THEN [ret |-> FALSE, file |-> campaigns_file]
             ELSE LET recipients == loaded[campaign_id].recipients
                      i == FirstIndex(recipients, recipient_id)
                  IN  IF i = 0
                      THEN [ret |-> FALSE, file |-> campaigns_file]
                      ELSE [ret |-> TRUE,
                            file |-> save_campaigns(
                                [loaded EXCEPT ![campaign_id].recipients[i] =
                                    MarkClicked(recipients[i])], write_ok)]

----------------------------------------------------------------------------
(* The tracking endpoint: phishing_app/ui.py track_click *)

\* the sig query parameter of a request: the issued one, or forged text
RequestSignatures(campaign_id, recipient_id) ==
    {generate_signature(campaign_id, recipient_id), RawString(<<"d", "e", "a", "d">>)}

\* the (cid, rid) query parameters requests arrive with
RequestPairs ==
    {<<Cid1, Rid1>>, <<Cid1, Rid2>>, <<Cid1, RidX>>, <<CidX, Rid1>>, <<Empty, Rid1>>}

\* track_click reads cid and rid only; the sig parameter is never read.  The
\* handler's query_params.get(name, [""])[0] is taken to yield the value the
\* link carries for the parameter ("" when it carries none).
TrackClick(cid, rid, sig, read_ok, write_ok) ==
    LET r == track_click_and_save(cid, rid, read_ok, write_ok)
    IN  /\ campaigns_file' = r.file
        /\ last' = [op |-> "track_click", cid |-> cid, rid |-> rid, ret |-> r.ret]
        /\ UNCHANGED <<idle, now, clicks_data, clicks_file, uuid_next, campaigns>>

----------------------------------------------------------------------------
(* TrackingService: services/tracking_service.py *)

ClientIp == <<"1", "0", ".", "0", ".", "0", ".", "7">>
UserAgent == <<"Mozilla">>

\* hashlib.sha256(ip.encode()).hexdigest(), kept as the term it is computed from
Sha256Hex(s) == <<"sha256">> \o s

\* the (campaign_id, recipient_id) arguments the service is called with
TrackedPairs == {<<Cid1, Rid1>>, <<CidX, RidX>>}

\* json.load of clicks.json; any exception is printed and [] is returned
load_clicks_data(read_ok) == IF read_ok THEN clicks_file ELSE <<>>

\* json.dump to clicks.json; any exception is printed and swallowed
save_clicks_data(data, write_ok) == IF write_ok THEN data ELSE clicks_file

\* the click_event dict of record_click (no event_type key)
ClickEvent(campaign_id, recipient_id, ip, user_agent) ==
    [id |-> uuid_next + 1, ts |-> now,
     campaign_id |-> campaign_id, recipient_id |-> recipient_id,
     ip_hash |-> IF ip = None THEN None ELSE Sha256Hex(ip),
     user_agent |-> user_agent,
     event_type |-> None, quiz_score |-> None]

\* the quiz_event dict of record_quiz_completion
QuizEvent(campaign_id, recipient_id, score) ==
    [id |-> uuid_next + 1, ts |-> now,
     campaign_id |-> campaign_id, recipient_id |-> recipient_id,
     ip_hash |-> None, user_agent |-> None,
     event_type |-> <<"quiz_completion">>, quiz_score |-> Some(score)]

\* self.clicks_data.append(event)
AppendEvent(data, event) == Append(data, event)

record_click(campaign_id, recipient_id, ip, user_agent, write_ok) ==
    LET event == ClickEvent(campaign_id, recipient_id, ip, user_agent)
    IN  /\ uuid_next < MaxEvents
        /\ uuid_next' = uuid_next + 1
        /\ clicks_data' = AppendEvent(clicks_data, event)
        /\ clicks_file' = save_clicks_data(clicks_data', write_ok)
        /\ last' = [op |-> "record_click", cid |-> campaign_id,
                    rid |-> recipient_id, ret |-> event]
        /\ UNCHANGED <<idle, now, campaigns_file, campaigns>>

record_quiz_completion(campaign_id, recipient_id, score, write_ok) ==
    LET event == QuizEvent(campaign_id, recipient_id, score)
    IN  /\ uuid_next < MaxEvents
        /\ uuid_next' = uuid_next + 1
        /\ clicks_data' = AppendEvent(clicks_data, event)
        /\ clicks_file' = save_clicks_data(clicks_data', write_ok)
        /\ last' = [op |-> "record_quiz_completion", cid |-> campaign_id,
                    rid |-> recipient_id, ret |-> event]
        /\ UNCHANGED <<idle, now, campaigns_file, campaigns>>

\* TrackingService.__init__: a new instance loads clicks.json
NewTrackingService(read_ok) ==
    /\ clicks_data' = load_clicks_data(read_ok)
    /\ last' = [op |-> "new_tracking_service", cid |-> Empty, rid |-> Empty,
                ret |-> read_ok]
    /\ UNCHANGED <<idle, now, campaigns_file, clicks_file, uuid_next, campaigns>>

----------------------------------------------------------------------------
(* The clock *)

Tick ==
    /\ now < MaxTime
    /\ now' = now + 1
    /\ UNCHANGED <<idle, campaigns_file, clicks_data, clicks_file, uuid_next, campaigns, last>>

----------------------------------------------------------------------------
(* The tracking endpoint with the event log *)

\* a target as ui.show_create_campaign builds it, queued or already sent
NewRecipient(campaign_id, recipient_id, email, sent) ==
    [id |-> recipient_id, email |-> email,
     status |-> IF sent THEN "sent" ELSE "queued",
     send_ts |-> IF sent THEN Some(0) ELSE None,
     click_ts |-> None,
     track_url |-> generate_tracking_url(campaign_id, recipient_id)]

NewCampaign(campaign_id, sent1, sent2) ==
    [id |-> campaign_id, name |-> <<"Q3 drill">>,
     status |-> IF sent1 \/ sent2 THEN "active" ELSE "draft",
     recipients |-> <<NewRecipient(campaign_id, Rid1, <<"a@example.com">>, sent1),
                      NewRecipient(campaign_id, Rid2, <<"b@example.com">>, sent2)>>]

NoExchange == [pc |-> "none"]

NoRequests == [serialize |-> FALSE, lock |-> 0, req |-> <<>>]

NoCall == [op |-> "none", cid |-> Empty, rid |-> Empty, ret |-> FALSE]

Init ==
    /\ now = 0
    /\ \E sent1 \in BOOLEAN, sent2 \in BOOLEAN :
           campaigns_file = [c \in {Cid1} |-> NewCampaign(c, sent1, sent2)]
    /\ clicks_data = <<>>
    /\ clicks_file = <<>>
    /\ uuid_next = 0
    /\ campaigns = EmptyDict
    /\ last = NoCall
    /\ signer = NoExchange
    /\ procs = NoRequests
    /\ links = {}
    /\ refs = OwnLists(campaigns)
    /\ other_clicks_data = <<>>

----------------------------------------------------------------------------
(* CampaignManager: services/campaign_manager.py *)

\* the status values update_target_status documents
Statuses == {"queued", "sent", "bounced", "clicked", "completed-quiz"}

\* the additional_data argument: None/{} or {"quiz_score": score}
AdditionalData ==
    {EmptyDict} \cup {[k \in {"quiz_score"} |-> Some(score)] : score \in 0..MaxScore}

\* the (campaign_id, recipient_id) arguments the manager is called with
ManagedPairs == {<<Cid1, Rid1>>, <<Cid1, Rid2>>, <<Cid1, RidX>>, <<CidX, Rid1>>}

RECURSIVE Gcd(_, _)
Gcd(a, b) == IF b = 0 THEN a ELSE Gcd(b, a % b)

\* a non-negative fraction in lowest terms
Fraction(num, den) ==
    LET g == Gcd(num, den) IN [num |-> num \div g, den |-> den \div g]

Zero == [num |-> 0, den |-> 1]

\* total_score = avg * (n - 1) + quiz_score; avg = total_score / n
RunningAverage(avg, n, quiz_score) ==
    Fraction(avg.num * (n - 1) + quiz_score * avg.den, avg.den * n)

\* json.dump of self.campaigns; any exception is printed and swallowed
mgr_save_campaigns(data, write_ok) == IF write_ok THEN data ELSE campaigns_file

\* dict.update(additional_data) on a target
UpdateDict(target, additional_data) ==
    [k \in DOMAIN target |->
        IF k \in DOMAIN additional_data THEN additional_data[k] ELSE target[k]]

\* the loop body of update_target_status on the matching target
SetTargetStatus(target, status, additional_data) ==
    UpdateDict([target EXCEPT !.status = status, !.status_updated_at = Some(now)],
               additional_data)

\* the metrics branch of update_target_status
UpdateMetrics(metrics, status, additional_data) ==
    IF status = "sent"
    THEN [metrics EXCEPT !.emails_sent = @ + 1]
    ELSE IF status = "clicked"
    THEN [metrics EXCEPT !.links_clicked = @ + 1]
    ELSE IF status = "completed-quiz"
    THEN LET n == metrics.quizzes_completed + 1
         IN  IF "quiz_score" \in DOMAIN additional_data
             THEN [metrics EXCEPT !.quizzes_completed = n,
                       !.avg_quiz_score = RunningAverage(@, n,
                                              additional_data["quiz_score"][1])]
             ELSE [metrics EXCEPT !.quizzes_completed = n]
    ELSE metrics

\* the counters UpdateMetrics increments are kept within the model's bound
CountersBelowBound(metrics) ==
    metrics.emails_sent + metrics.links_clicked + metrics.quizzes_completed < MaxCount

update_target_status(campaign_id, recipient_id, status, additional_data, write_ok) ==
    IF campaign_id \notin DOMAIN campaigns
    THEN /\ last' = [op |-> "update_target_status", cid |-> campaign_id,
                     rid |-> recipient_id, ret |-> FALSE]
         /\ UNCHANGED <<idle, now, campaigns_file, clicks_data, clicks_file, uuid_next,
                        campaigns>>
    ELSE LET campaign == campaigns[campaign_id]
             i == FirstIndex(campaign.targets, recipient_id)
         IN  IF i = 0
             THEN /\ last' = [op |-> "update_target_status", cid |-> campaign_id,
                              rid |-> recipient_id, ret |-> FALSE]
                  /\ UNCHANGED <<idle, now, campaigns_file, clicks_data, clicks_file,
                                 uuid_next, campaigns>>
             ELSE /\ CountersBelowBound(campaign.metrics)
                  /\ campaigns' =
                         LET updated == [campaign EXCEPT
                                 !.targets[i] = SetTargetStatus(@, status, additional_data),
                                 !.metrics = UpdateMetrics(@, status, additional_data),
                                 !.updated_at = now]
                         IN  [c \in DOMAIN campaigns |->
                                 IF c = campaign_id THEN updated
                                 ELSE IF refs[c] = refs[campaign_id]
                                 THEN [campaigns[c] EXCEPT !.targets = updated.targets]
                                 ELSE campaigns[c]]
                  /\ campaigns_file' = mgr_save_campaigns(campaigns', write_ok)
                  /\ last' = [op |-> "update_target_status", cid |-> campaign_id,
                              rid |-> recipient_id, ret |-> TRUE]
                  /\ UNCHANGED <<idle, now, clicks_data, clicks_file, uuid_next>>

\* a target dict as the caller of create_campaign passes it
NewTarget(recipient_id, email) ==
    [id |-> recipient_id, email |-> email, status |-> "queued",
     status_updated_at |-> None, quiz_score |-> None]

\* the campaign dict create_campaign stores
CreatedCampaign(campaign_id, targets) ==
    [id |-> campaign_id, name |-> <<"Q3 drill">>, created_at |-> now,
     updated_at |-> now,
     status |-> "draft", targets |-> targets,
     metrics |-> [total_targets |-> Len(targets), emails_sent |-> 0,
                  emails_opened |-> 0, links_clicked |-> 0,
                  quizzes_completed |-> 0, avg_quiz_score |-> Zero]]

\* a manager that has created one campaign with two targets; the storage it
\* writes to is taken to work
InitMgr ==
    /\ now = 0
    /\ campaigns = [c \in {Cid1} |->
           CreatedCampaign(c, <<NewTarget(Rid1, <<"a@example.com">>),
                                NewTarget(Rid2, <<"b@example.com">>)>>)]
    /\ campaigns_file = campaigns
    /\ clicks_data = <<>>
    /\ clicks_file = <<>>
    /\ uuid_next = 0
    /\ last = NoCall
    /\ signer = NoExchange
    /\ procs = NoRequests
    /\ links = {}
    /\ refs = OwnLists(campaigns)
    /\ other_clicks_data = <<>>

UpdateTargetStatusCall ==
    \E p \in ManagedPairs, status \in Statuses, ad \in AdditionalData :
        update_target_status(p[1], p[2], status, ad, TRUE)

NextMgr == UpdateTargetStatusCall

SpecMgr == InitMgr /\ [][NextMgr]_vars

TrackClickRequest ==
    \E p \in RequestPairs, read_ok \in BOOLEAN, write_ok \in BOOLEAN :
        \E sig \in RequestSignatures(p[1], p[2]) :
            TrackClick(p[1], p[2], sig, read_ok, write_ok)

\* record_click called by a host that passes the client's address on
RecordClickCall ==
    \E p \in TrackedPairs, write_ok \in BOOLEAN :
        record_click(p[1], p[2], ClientIp, UserAgent, write_ok)

\* record_click called with or without the optional arguments
RecordClickAnyCall ==
    \E p \in TrackedPairs, ip \in {None, ClientIp}, write_ok \in BOOLEAN :
        record_click(p[1], p[2], ip, IF ip = None THEN None ELSE UserAgent, write_ok)

RecordQuizCall ==
    \E p \in TrackedPairs, score \in 0..MaxScore, write_ok \in BOOLEAN :
        record_quiz_completion(p[1], p[2], score, write_ok)

NewServiceCall == \E read_ok \in BOOLEAN : NewTrackingService(read_ok)

\* the tracking endpoint and the click log
Next ==
    \/ Tick
    \/ TrackClickRequest
    \/ RecordClickCall

Spec == Init /\ [][Next]_vars

\* the TrackingService alone, across re-creations of the service
NextTrack ==
    \/ Tick
    \/ RecordClickAnyCall
    \/ RecordQuizCall
    \/ NewServiceCall

SpecTrack == Init /\ [][NextTrack]_vars

----------------------------------------------------------------------------
(* Sign / verify exchanges: a link is signed for one pair and a signature  *)
(* is presented for a pair                                                 *)

RECURSIVE StringsOfLen(_, _)
StringsOfLen(alphabet, n) ==
    IF n = 0 THEN {<<>>}
    ELSE {Append(s, ch) : s \in StringsOfLen(alphabet, n - 1), ch \in alphabet}

Strings(alphabet, lo, hi) == UNION {StringsOfLen(alphabet, n) : n \in lo..hi}

\* characters of identifiers: a letter, and the separator of the signed message
IdAlphabet == {"a", "|"}

\* characters of presented signatures: a hex digit, and one outside ASCII
SigAlphabet == {"f"} \cup NonAsciiChars

\* non-empty campaign and recipient identifiers
Identifiers == Strings(IdAlphabet, 1, MaxIdLen)

\* signature strings a request can carry besides an issued one
RawSignatures == {RawString(s) : s \in Strings(SigAlphabet, 0, MaxSigLen)}

InitSig ==
    /\ now = 0
    /\ campaigns_file = EmptyDict
    /\ clicks_data = <<>>
    /\ clicks_file = <<>>
    /\ uuid_next = 0
    /\ campaigns = EmptyDict
    /\ last = NoCall
    /\ procs = NoRequests
    /\ links = {}
    /\ refs = OwnLists(campaigns)
    /\ other_clicks_data = <<>>
    /\ \E c \in Identifiers, r \in Identifiers, c2 \in Identifiers, r2 \in Identifiers :
           signer = [pc |-> "start", campaign_id |-> c, recipient_id |-> r,
                     signed_campaign |-> c2, signed_recipient |-> r2,
                     issued |-> None, presented |-> None, verdict |-> None]

\* generate_tracking_url signs the link of (signed_campaign, signed_recipient)
Sign ==
    /\ signer.pc = "start"
    /\ signer' = [signer EXCEPT !.pc = "signed",
                      !.issued = Some(generate_signature(signer.signed_campaign,
                                                         signer.signed_recipient))]
    /\ UNCHANGED <<now, campaigns_file, clicks_data, clicks_file, uuid_next,
                   campaigns, last, procs, links,
                   apart>>

\* verify_signature(campaign_id, recipient_id, signature)
Verify(signature) ==
    /\ signer' = [signer EXCEPT !.pc = "verified",
                      !.presented = Some(signature),
                      !.verdict = Some(verify_signature(signer.campaign_id,
                                           signer.recipient_id, signature))]
    /\ UNCHANGED <<now, campaigns_file, clicks_data, clicks_file, uuid_next,
                   campaigns, last, procs, links,
                   apart>>

\* the issued signature is presented for (campaign_id, recipient_id)
VerifyIssued ==
    /\ signer.pc = "signed"
    /\ Verify(signer.issued[1])

\* some other string is presented
VerifyRaw ==
    /\ signer.pc \in {"start", "signed"}
    /\ \E raw \in RawSignatures : Verify(raw)

NextSig ==
    \/ Sign
    \/ VerifyIssued
    \/ VerifyRaw

SpecSig == InitSig /\ [][NextSig]_vars

----------------------------------------------------------------------------
(* Concurrent click requests: track_click_and_save step by step            *)
(* (load the file, mark the recipient in the loaded copy, write the file), *)
(* with or without a host that runs each request as a critical section     *)

\* the requests in flight: two different targets of one campaign
ConcurrentRequests == <<<<Cid1, Rid1>>, <<Cid1, Rid2>>>>

NewRequest(p) ==
    [pc |-> "start", cid |-> p[1], rid |-> p[2], snapshot |-> EmptyDict, ret |-> FALSE]

\* the storage is taken to work while the requests run
InitConc ==
    /\ now = 0
    /\ \E sent1 \in BOOLEAN, sent2 \in BOOLEAN :
           campaigns_file = [c \in {Cid1} |-> NewCampaign(c, sent1, sent2)]
    /\ clicks_data = <<>>
    /\ clicks_file = <<>>
    /\ uuid_next = 0
    /\ campaigns = EmptyDict
    /\ last = NoCall
    /\ signer = NoExchange
    /\ links = {}
    /\ refs = OwnLists(campaigns)
    /\ other_clicks_data = <<>>
    /\ \E serialize \in BOOLEAN :
           procs = [serialize |-> serialize, lock |-> 0,
                    req |-> [i \in 1..Len(ConcurrentRequests) |->
                                NewRequest(ConcurrentRequests[i])]]

\* a serializing host lets one request at a time into the critical section
HostAcquire(i) == IF procs.serialize THEN procs.lock = 0 ELSE TRUE

HostLockAfterAcquire(i) == IF procs.serialize THEN i ELSE procs.lock

HostLockAfterRelease(i) == IF procs.lock = i THEN 0 ELSE procs.lock

\* entry of track_click_and_save: both ids are non-empty
ConcBegin(i) ==
    /\ procs.req[i].pc = "start"
    /\ procs.req[i].cid # Empty /\ procs.req[i].rid # Empty
    /\ HostAcquire(i)
    /\ procs' = [procs EXCEPT !.lock = HostLockAfterAcquire(i),
                              !.req[i].pc = "load"]
    /\ UNCHANGED <<now, campaigns_file, clicks_data, clicks_file, uuid_next,
                   campaigns, last, signer, links,
                   apart>>

\* campaigns = load_campaigns()
ConcLoad(i) ==
    /\ procs.req[i].pc = "load"
    /\ procs' = [procs EXCEPT !.req[i].snapshot = load_campaigns(TRUE),
                              !.req[i].pc = "mutate"]
    /\ UNCHANGED <<now, campaigns_file, clicks_data, clicks_file, uuid_next,
                   campaigns, last, signer, links,
                   apart>>

\* the lookup and the assignments to the loaded recipient
ConcMutate(i) ==
    LET r == procs.req[i]
        k == IF r.cid \in DOMAIN r.snapshot
             THEN FirstIndex(r.snapshot[r.cid].recipients, r.rid) ELSE 0
    IN  /\ r.pc = "mutate"
        /\ procs' = IF k = 0
                    THEN [procs EXCEPT !.req[i].pc = "done", !.req[i].ret = FALSE,
                                       !.lock = HostLockAfterRelease(i)]
                    ELSE [procs EXCEPT !.req[i].pc = "write",
                              !.req[i].snapshot[r.cid].recipients[k] = MarkClicked(@)]
        /\ UNCHANGED <<now, campaigns_file, clicks_data, clicks_file, uuid_next,
                       campaigns, last, signer, links,
                   apart>>

\* save_campaigns(campaigns); return True
ConcWrite(i) ==
    /\ procs.req[i].pc = "write"
    /\ campaigns_file' = save_campaigns(procs.req[i].snapshot, TRUE)
    /\ procs' = [procs EXCEPT !.req[i].pc = "done", !.req[i].ret = TRUE,
                              !.lock = HostLockAfterRelease(i)]
    /\ UNCHANGED <<now, clicks_data, clicks_file, uuid_next, campaigns, last, signer, links,
                   apart>>

ConcTick ==
    /\ now < MaxTime
    /\ now' = now + 1
    /\ UNCHANGED <<campaigns_file, clicks_data, clicks_file, uuid_next, campaigns,
                   last, signer, procs, links,
                   apart>>

NextConc ==
    \/ ConcTick
    \/ \E i \in 1..Len(procs.req) : ConcBegin(i)
    \/ \E i \in 1..Len(procs.req) : ConcLoad(i)
    \/ \E i \in 1..Len(procs.req) : ConcMutate(i)
    \/ \E i \in 1..Len(procs.req) : ConcWrite(i)

SpecConc == InitConc /\ [][NextConc]_vars

----------------------------------------------------------------------------
(* Tracking links: TrackingService.generate_tracking_url, and the links    *)
(* ui.show_create_campaign stores on the targets it creates                *)

\* self.base_url without STREAMLIT_APP_URL in the environment
ServiceBaseUrl == <<"http://localhost:8501">>

\* a hexdigest as the text an f-string puts into the URL
HexText(signature) ==
    IF signature.mac THEN <<"hmac:">> \o signature.key \o <<":">> \o signature.text
    ELSE signature.text

\* utm_params: None, or a dict as the sequence of its (key, value) items
UtmParams ==
    {None,
     <<<<<<"utm_source">>, <<"mail">>>>, <<<<"utm_medium">>, <<"email">>>>>>}

\* for key, value in utm_params.items(): tracking_url += f"&{key}={value}"
RECURSIVE AppendUtmParams(_, _)
AppendUtmParams(tracking_url, utm_params) ==
    IF utm_params = <<>> THEN tracking_url
    ELSE AppendUtmParams(tracking_url \o <<"&">> \o utm_params[1][1] \o <<"=">>
                             \o utm_params[1][2], Tail(utm_params))

TrackingService_generate_tracking_url(campaign_id, recipient_id, utm_params) ==
    LET signature == generate_signature(campaign_id, recipient_id)
        tracking_url == ServiceBaseUrl \o <<"?track=1&cid=">> \o campaign_id
                            \o <<"&rid=">> \o recipient_id
                            \o <<"&sig=">> \o HexText(signature)
    IN  AppendUtmParams(tracking_url, utm_params)

RidAmp == <<"t", "&", "x", "=", "1">>

\* the (campaign_id, recipient_id) arguments links are generated for
LinkPairs == {<<Cid1, Rid1>>, <<Empty, Rid1>>, <<Cid1, RidAmp>>}

\* one call of generate_tracking_url; the link is kept with its inputs, the
\* signature it carries and the time of the call
GenerateTrackingUrl(campaign_id, recipient_id, utm_params) ==
    LET url == TrackingService_generate_tracking_url(campaign_id, recipient_id,
                                                     utm_params)
        link == [cid |-> campaign_id, rid |-> recipient_id, utm |-> utm_params,
                 sig |-> generate_signature(campaign_id, recipient_id),
                 url |-> url, at |-> now]
    IN  /\ Cardinality(links \cup {link}) <= MaxLinks
        /\ links' = links \cup {link}
        /\ last' = [op |-> "generate_tracking_url", cid |-> campaign_id,
                    rid |-> recipient_id, ret |-> url]
        /\ UNCHANGED <<signer, procs, now, campaigns_file, clicks_data, clicks_file,
                       uuid_next, campaigns,
                   apart>>

\* show_create_campaign: every target is queued and gets its track_url from
\* persistence.generate_tracking_url; the campaigns are saved
ShowCreateCampaign(campaign_id, write_ok) ==
    /\ campaign_id \notin DOMAIN campaigns_file
    /\ campaigns_file' = save_campaigns(
           campaigns_file @@ (campaign_id :> NewCampaign(campaign_id, FALSE, FALSE)),
           write_ok)
    /\ last' = [op |-> "show_create_campaign", cid |-> campaign_id, rid |-> Empty,
                ret |-> TRUE]
    /\ UNCHANGED <<idle, now, clicks_data, clicks_file, uuid_next, campaigns>>

InitLink ==
    /\ now = 0
    /\ campaigns_file = EmptyDict
    /\ clicks_data = <<>>
    /\ clicks_file = <<>>
    /\ uuid_next = 0
    /\ campaigns = EmptyDict
    /\ last = [NoCall EXCEPT !.ret = None]
    /\ signer = NoExchange
    /\ procs = NoRequests
    /\ links = {}
    /\ refs = OwnLists(campaigns)
    /\ other_clicks_data = <<>>

GenerateTrackingUrlCall ==
    \E p \in LinkPairs, utm_params \in UtmParams :
        GenerateTrackingUrl(p[1], p[2], utm_params)

ShowCreateCampaignCall == \E write_ok \in BOOLEAN : ShowCreateCampaign(Cid1, write_ok)

\* the service records a click between two link generations
LinkRecordClickCall == record_click(Cid1, Rid1, ClientIp, UserAgent, TRUE)

NextLink ==
    \/ Tick
    \/ GenerateTrackingUrlCall
    \/ ShowCreateCampaignCall
    \/ LinkRecordClickCall

SpecLink == InitLink /\ [][NextLink]_vars

----------------------------------------------------------------------------
(* Metrics: Campaign.update_metrics (models/campaign.py) and the figures   *)
(* the report pages compute (app.show_reports, ui.show_reports)            *)

\* (status, quiz_score) of a stored target: a score only with completed-quiz
TargetKinds ==
    {<<status, None>> : status \in {"queued", "sent", "bounced", "failed", "clicked"}}
        \cup {<<"completed-quiz", Some(score)>> : score \in 0..MaxScore}

\* a stored target dict; click_ts is set from the click on
StoredTarget(i, kind) ==
    [id |-> <<"t", ToString(i)>>, status |-> kind[1],
     click_ts |-> IF kind[1] \in {"clicked", "completed-quiz"} THEN Some(0) ELSE None,
     quiz_score |-> kind[2]]

\* the recipient lists of a stored campaign
StoredRecipientLists ==
    {[i \in DOMAIN kinds |-> StoredTarget(i, kinds[i])] :
        kinds \in UNION {[1..n -> TargetKinds] : n \in 0..MaxTargets}}

\* the metrics a stored campaign carries: the defaults, or earlier figures
StoredMetrics ==
    {[click_rate |-> Zero, quiz_completion_rate |-> Zero, avg_quiz_score |-> Zero],
     [click_rate |-> Fraction(1, 2), quiz_completion_rate |-> Fraction(1, 1),
      avg_quiz_score |-> Fraction(1, 1)]}

\* Target.from_dict
Target_from_dict(data) ==
    [id |-> data.id, status |-> data.status, click_ts |-> data.click_ts,
     quiz_score |-> data.quiz_score]

\* Campaign.from_dict
Campaign_from_dict(data) ==
    [id |-> data.id,
     recipients |-> [i \in 1..Len(data.recipients) |->
                        Target_from_dict(data.recipients[i])],
     metrics |-> [click_rate |-> data.metrics.click_rate,
                  quiz_completion_rate |-> data.metrics.quiz_completion_rate,
                  avg_quiz_score |-> data.metrics.avg_quiz_score]]

\* sum(1 for r in recipients if r.status in statuses)
CountStatus(recipients, statuses) ==
    Cardinality({i \in 1..Len(recipients) : recipients[i].status \in statuses})

\* sum of the quiz_score of the recipients that have one
RECURSIVE SumQuizScores(_)
SumQuizScores(recipients) ==
    IF recipients = <<>> THEN 0
    ELSE (IF recipients[1].quiz_score = None THEN 0 ELSE recipients[1].quiz_score[1])
             + SumQuizScores(Tail(recipients))

CountQuizScores(recipients) ==
    Cardinality({i \in 1..Len(recipients) : recipients[i].quiz_score # None})

\* Campaign.update_metrics: the metrics afterwards
update_metrics(campaign) ==
    LET recipients == campaign.recipients
        sent_count == CountStatus(recipients, {"sent", "clicked", "completed-quiz"})
        clicked_count == CountStatus(recipients, {"clicked", "completed-quiz"})
        quiz_count == CountStatus(recipients, {"completed-quiz"})
        scores == CountQuizScores(recipients)
    IN  IF Len(recipients) = 0 THEN campaign.metrics
        ELSE [click_rate |-> IF sent_count > 0
                             THEN Fraction(clicked_count, sent_count) ELSE Zero,
              quiz_completion_rate |-> IF clicked_count > 0
                             THEN Fraction(quiz_count, clicked_count) ELSE Zero,
              avg_quiz_score |-> IF scores > 0
                             THEN Fraction(SumQuizScores(recipients), scores) ELSE Zero]

\* app.show_reports: the metrics dict it stores, and whether the page raised
\* (line 431 divides by total_recipients)
app_show_reports(campaign) ==
    LET recipients == campaign.recipients
        sent_count == CountStatus(recipients, {"sent", "clicked", "completed-quiz"})
        clicked_count == CountStatus(recipients, {"clicked", "completed-quiz"})
        quiz_count == CountStatus(recipients, {"completed-quiz"})
    IN  [raised |-> (Len(recipients) = 0),
         metrics |->
             [click_rate |-> IF sent_count > 0
                             THEN Fraction(clicked_count, sent_count) ELSE Zero,
              quiz_completion_rate |-> IF clicked_count > 0
                             THEN Fraction(quiz_count, clicked_count) ELSE Zero,
              avg_quiz_score |-> IF quiz_count > 0
                             THEN Fraction(SumQuizScores(recipients), quiz_count)
                             ELSE Zero]]

\* ui.show_reports: total, sent, clicked and click_rate (a percentage)
ui_show_reports(campaign) ==
    LET recipients == campaign.recipients
        sent == CountStatus(recipients, {"sent"})
        clicked == Cardinality({i \in 1..Len(recipients) :
                                   recipients[i].click_ts # None})
    IN  [total |-> Len(recipients), sent |-> sent, clicked |-> clicked,
         click_rate |-> IF sent > 0 THEN Fraction(clicked * 100, sent) ELSE Zero]

NoMetrics == [op |-> "none"]

\* a campaign loaded from its stored dict
InitMetrics ==
    /\ now = 0
    /\ \E recipients \in StoredRecipientLists, metrics \in StoredMetrics :
           /\ campaigns_file = [c \in {Cid1} |->
                  [id |-> c, recipients |-> recipients, metrics |-> metrics]]
           /\ campaigns = [c \in {Cid1} |-> Campaign_from_dict(campaigns_file[c])]
    /\ clicks_data = <<>>
    /\ clicks_file = <<>>
    /\ uuid_next = 0
    /\ last = NoMetrics
    /\ signer = NoExchange
    /\ procs = NoRequests
    /\ links = {}
    /\ refs = OwnLists(campaigns)
    /\ other_clicks_data = <<>>

\* campaign.update_metrics()
CampaignUpdateMetrics(campaign_id) ==
    /\ campaigns' = [campaigns EXCEPT ![campaign_id].metrics =
                         update_metrics(campaigns[campaign_id])]
    /\ last' = [op |-> "update_metrics", before |-> campaigns[campaign_id].metrics,
                metrics |-> campaigns'[campaign_id].metrics]
    /\ UNCHANGED <<idle, now, campaigns_file, clicks_data, clicks_file, uuid_next>>

\* app.show_reports: the metrics are stored and saved, then displayed
AppShowReports(campaign_id, write_ok) ==
    LET r == app_show_reports(campaigns[campaign_id])
    IN  /\ campaigns' = [campaigns EXCEPT ![campaign_id].metrics = r.metrics]
        /\ campaigns_file' = IF write_ok THEN campaigns' ELSE campaigns_file
        /\ last' = [op |-> "app.show_reports", raised |-> r.raised,
                    metrics |-> r.metrics]
        /\ UNCHANGED <<idle, now, clicks_data, clicks_file, uuid_next>>

\* ui.show_reports only displays
UiShowReports(campaign_id) ==
    /\ last' = [op |-> "ui.show_reports",
                stats |-> ui_show_reports(campaigns[campaign_id])]
    /\ UNCHANGED <<idle, now, campaigns_file, campaigns, clicks_data, clicks_file,
                   uuid_next>>

AppShowReportsCall == \E write_ok \in BOOLEAN : AppShowReports(Cid1, write_ok)

NextMetrics ==
    \/ CampaignUpdateMetrics(Cid1)
    \/ AppShowReportsCall
    \/ UiShowReports(Cid1)

SpecMetrics == InitMetrics /\ [][NextMetrics]_vars

----------------------------------------------------------------------------
(* CampaignManager.get_campaign_statistics *)

\* _count_target_statuses
count_target_statuses(campaign) ==
    [status \in Statuses |-> CountStatus(campaign.targets, {status})]

\* get_campaign_statistics: None when there is no such campaign
get_campaign_statistics(campaign_id) ==
    IF campaign_id \notin DOMAIN campaigns THEN None
    ELSE LET campaign == campaigns[campaign_id]
             metrics == campaign.metrics
             total_targets == metrics.total_targets
         IN  [total_targets |-> total_targets,
              emails_sent |-> metrics.emails_sent,
              emails_sent_percent |-> IF total_targets > 0
                  THEN Fraction(metrics.emails_sent * 100, total_targets) ELSE Zero,
              links_clicked |-> metrics.links_clicked,
              click_rate |-> IF metrics.emails_sent > 0
                  THEN Fraction(metrics.links_clicked * 100, metrics.emails_sent)
                  ELSE Zero,
              quizzes_completed |-> metrics.quizzes_completed,
              quiz_completion_rate |-> IF metrics.links_clicked > 0
                  THEN Fraction(metrics.quizzes_completed * 100, metrics.links_clicked)
                  ELSE Zero,
              avg_quiz_score |-> metrics.avg_quiz_score,
              status_counts |-> count_target_statuses(campaign)]

----------------------------------------------------------------------------
(* Quiz completions of a target that clicked: the tracking endpoint marks  *)
(* the target, TrackingService.record_quiz_completion records the quiz     *)

\* the number of questions of the quiz that was taken
QuizLength == MaxScore

\* the score argument: an int the caller passes
SubmittedScores == (0 - 1)..(QuizLength + 1)

\* the target's click arrives; the storage is taken to work
QuizTrackClick == TrackClick(Cid1, Rid1, generate_signature(Cid1, Rid1), TRUE, TRUE)

QuizRecordCall ==
    \E score \in SubmittedScores : record_quiz_completion(Cid1, Rid1, score, TRUE)

NextQuiz ==
    \/ Tick
    \/ QuizTrackClick
    \/ QuizRecordCall

SpecQuiz == Init /\ [][NextQuiz]_vars

----------------------------------------------------------------------------
(* The send step of an administrator's session: ui.show_email_preview, on  *)
(* st.session_state.campaigns (the variable campaigns), next to the clicks *)
(* that arrive at the tracking endpoint                                    *)

\* the body of the send loop for a recipient whose email was sent
MarkSent(recipient) ==
    [recipient EXCEPT !.status = "sent", !.send_ts = Some(now)]

\* init_session_state of a new session: campaigns = load_campaigns()
InitSessionState(read_ok) ==
    /\ campaigns' = load_campaigns(read_ok)
    /\ refs' = OwnLists(campaigns')
    /\ last' = [op |-> "init_session_state", cid |-> Empty, rid |-> Empty,
                ret |-> read_ok]
    /\ UNCHANGED <<signer, procs, links, other_clicks_data, now, campaigns_file,
                   clicks_data, clicks_file, uuid_next>>

\* "Send Campaign" on the current campaign: sent[i] tells whether the email
\* to recipient i went out; nothing happens without a connected agent
SendCampaign(campaign_id, connected, sent, write_ok) ==
    /\ campaign_id \in DOMAIN campaigns
    /\ IF ~connected
       THEN /\ last' = [op |-> "send_campaign", cid |-> campaign_id, rid |-> Empty,
                        ret |-> FALSE]
            /\ UNCHANGED <<idle, now, campaigns_file, campaigns, clicks_data,
                           clicks_file, uuid_next>>
       ELSE /\ campaigns' = [campaigns EXCEPT
                   ![campaign_id].recipients =
                       [i \in DOMAIN @ |-> IF sent[i] THEN MarkSent(@[i]) ELSE @[i]],
                   ![campaign_id].status = "active"]
            /\ campaigns_file' = save_campaigns(campaigns', write_ok)
            /\ last' = [op |-> "send_campaign", cid |-> campaign_id, rid |-> Empty,
                        ret |-> TRUE]
            /\ UNCHANGED <<idle, now, clicks_data, clicks_file, uuid_next>>

\* the session that created the campaign: nothing is sent yet
InitSend ==
    /\ now = 0
    /\ campaigns_file = [c \in {Cid1} |-> NewCampaign(c, FALSE, FALSE)]
    /\ campaigns = campaigns_file
    /\ clicks_data = <<>>
    /\ clicks_file = <<>>
    /\ uuid_next = 0
    /\ last = NoCall
    /\ signer = NoExchange
    /\ procs = NoRequests
    /\ links = {}
    /\ refs = OwnLists(campaigns)
    /\ other_clicks_data = <<>>

InitSessionStateCall == \E read_ok \in BOOLEAN : InitSessionState(read_ok)

\* the current campaign is in the session, else "No campaign selected."
SendCampaignCall ==
    /\ Cid1 \in DOMAIN campaigns
    /\ \E connected \in BOOLEAN, write_ok \in BOOLEAN :
           \E sent \in [1..Len(campaigns[Cid1].recipients) -> BOOLEAN] :
               SendCampaign(Cid1, connected, sent, write_ok)

NextSend ==
    \/ Tick
    \/ InitSessionStateCall
    \/ SendCampaignCall
    \/ TrackClickRequest

SpecSend == InitSend /\ [][NextSend]_vars

----------------------------------------------------------------------------
(* CampaignManager: create, update, clone and delete *)

MaxUuids == 4
MaxCampaigns == 2

Uuid_repeating(n) == <<"u", "0">>

\* str(uuid.uuid4()): the n-th value drawn
Uuid(n) == <<"u", ToString(n)>>

Email(i) == <<"rcpt", ToString(i), "@example.com">>

\* the target list a caller builds for n addresses, one uuid4 per target
NewTargets(n) == [i \in 1..n |-> NewTarget(Uuid(uuid_next + i), Email(i))]

\* dict[k] = v
Put(dict, k, v) == [x \in DOMAIN dict \cup {k} |-> IF x = k THEN v ELSE dict[x]]

\* del dict[k]
Remove(dict, k) == [x \in DOMAIN dict \ {k} |-> dict[x]]

\* CampaignManager.__init__: a new manager loads campaigns.json
NewCampaignManager(read_ok) ==
    /\ campaigns' = IF read_ok THEN campaigns_file ELSE EmptyDict
    /\ refs' = OwnLists(campaigns')
    /\ last' = [op |-> "new_campaign_manager", cid |-> Empty, rid |-> Empty,
                ret |-> read_ok]
    /\ UNCHANGED <<signer, procs, links, other_clicks_data, now, campaigns_file,
                   clicks_data, clicks_file, uuid_next>>

\* create_campaign(name, ..., targets): the caller has drawn one uuid4 per
\* target, the manager draws the campaign's
create_campaign(targets, write_ok) ==
    LET campaign_id == Uuid(uuid_next + Len(targets) + 1)
    IN  /\ uuid_next + Len(targets) + 1 <= MaxUuids
        /\ Cardinality(DOMAIN campaigns) < MaxCampaigns
        /\ uuid_next' = uuid_next + Len(targets) + 1
        /\ campaigns' = Put(campaigns, campaign_id, CreatedCampaign(campaign_id, targets))
        /\ refs' = Put(refs, campaign_id, campaign_id)
        /\ campaigns_file' = mgr_save_campaigns(campaigns', write_ok)
        /\ last' = [op |-> "create_campaign", cid |-> campaign_id, rid |-> Empty,
                    ret |-> TRUE]
        /\ UNCHANGED <<signer, procs, links, other_clicks_data, now, clicks_data,
                       clicks_file>>

\* the updates argument of update_campaign: one field each
CampaignUpdates ==
    {[k \in {"id"} |-> CidX],
     [k \in {"metrics"} |-> [m \in {"emails_opened"} |-> 1]]}

\* the loop of update_campaign: a dict value is merged into a dict field,
\* any other value replaces the field
ApplyUpdates(campaign, updates) ==
    [k \in DOMAIN campaign |->
        IF k \notin DOMAIN updates THEN campaign[k]
        ELSE IF k = "metrics"
        THEN [m \in DOMAIN campaign[k] |->
                 IF m \in DOMAIN updates[k] THEN updates[k][m] ELSE campaign[k][m]]
        ELSE updates[k]]

update_campaign(campaign_id, updates, write_ok) ==
    IF campaign_id \notin DOMAIN campaigns
    THEN /\ last' = [op |-> "update_campaign", cid |-> campaign_id, rid |-> Empty,
                     ret |-> FALSE]
         /\ UNCHANGED <<idle, now, campaigns_file, clicks_data, clicks_file, uuid_next,
                        campaigns>>
    ELSE /\ campaigns' = [campaigns EXCEPT ![campaign_id] =
                [ApplyUpdates(@, updates) EXCEPT !.updated_at = now]]
         /\ campaigns_file' = mgr_save_campaigns(campaigns', write_ok)
         /\ last' = [op |-> "update_campaign", cid |-> campaign_id, rid |-> Empty,
                     ret |-> TRUE]
         /\ UNCHANGED <<idle, now, clicks_data, clicks_file, uuid_next>>

delete_campaign(campaign_id, write_ok) ==
    IF campaign_id \notin DOMAIN campaigns
    THEN /\ last' = [op |-> "delete_campaign", cid |-> campaign_id, rid |-> Empty,
                     ret |-> FALSE]
         /\ UNCHANGED <<idle, now, campaigns_file, clicks_data, clicks_file, uuid_next,
                        campaigns>>
    ELSE /\ campaigns' = Remove(campaigns, campaign_id)
         /\ refs' = Remove(refs, campaign_id)
         /\ campaigns_file' = mgr_save_campaigns(campaigns', write_ok)
         /\ last' = [op |-> "delete_campaign", cid |-> campaign_id, rid |-> Empty,
                     ret |-> TRUE]
         /\ UNCHANGED <<signer, procs, links, other_clicks_data, now, clicks_data,
                        clicks_file, uuid_next>>

\* new_campaign = campaign.copy(): a new dict whose 'targets' key points at
\* the list of the original; id, name, dates, status and metrics are set anew
ClonedCampaign(campaign, new_campaign_id, new_name) ==
    [campaign EXCEPT
        !.id = new_campaign_id,
        !.name = IF new_name = None THEN campaign.name \o <<" (Clone)">> ELSE new_name[1],
        !.created_at = now,
        !.updated_at = now,
        !.status = "draft",
        !.metrics = [total_targets |-> Len(campaign.targets), emails_sent |-> 0,
                     emails_opened |-> 0, links_clicked |-> 0,
                     quizzes_completed |-> 0, avg_quiz_score |-> Zero]]

clone_campaign(campaign_id, new_name, write_ok) ==
    IF campaign_id \notin DOMAIN campaigns
    THEN /\ last' = [op |-> "clone_campaign", cid |-> campaign_id, rid |-> Empty,
                     ret |-> FALSE]
         /\ UNCHANGED <<idle, now, campaigns_file, clicks_data, clicks_file, uuid_next,
                        campaigns>>
    ELSE LET new_campaign_id == Uuid(uuid_next + 1)
         IN  /\ uuid_next < MaxUuids
             /\ Cardinality(DOMAIN campaigns) < MaxCampaigns
             /\ uuid_next' = uuid_next + 1
             /\ campaigns' = Put(campaigns, new_campaign_id,
                    ClonedCampaign(campaigns[campaign_id], new_campaign_id, new_name))
             /\ refs' = Put(refs, new_campaign_id, refs[campaign_id])
             /\ campaigns_file' = mgr_save_campaigns(campaigns', write_ok)
             /\ last' = [op |-> "clone_campaign", cid |-> campaign_id, rid |-> Empty,
                         ret |-> TRUE]
             /\ UNCHANGED <<signer, procs, links, other_clicks_data, now, clicks_data,
                            clicks_file>>

\* a manager started on an empty data directory; the storage is taken to work
InitLife ==
    /\ now = 0
    /\ campaigns = EmptyDict
    /\ campaigns_file = EmptyDict
    /\ clicks_data = <<>>
    /\ clicks_file = <<>>
    /\ uuid_next = 0
    /\ last = NoCall
    /\ signer = NoExchange
    /\ procs = NoRequests
    /\ links = {}
    /\ refs = OwnLists(campaigns)
    /\ other_clicks_data = <<>>

\* the campaign ids a caller holds: those in memory and an unknown one
KnownCampaigns == DOMAIN campaigns \cup {CidX}

\* the target ids a caller holds for a campaign, and an unknown one
KnownTargets(campaign_id) ==
    IF campaign_id \in DOMAIN campaigns
    THEN {campaigns[campaign_id].targets[i].id :
             i \in 1..Len(campaigns[campaign_id].targets)} \cup {RidX}
    ELSE {RidX}

LifeStatuses == {"clicked"}

NewManagerCall == NewCampaignManager(TRUE)

CreateCampaignCall == \E n \in 1..MaxTargets : create_campaign(NewTargets(n), TRUE)

UpdateCampaignCall ==
    \E c \in KnownCampaigns, updates \in CampaignUpdates : update_campaign(c, updates, TRUE)

DeleteCampaignCall == \E c \in KnownCampaigns : delete_campaign(c, TRUE)

CloneCampaignCall ==
    \E c \in KnownCampaigns : clone_campaign(c, None, TRUE)

LifeUpdateTargetStatusCall ==
    \E c \in KnownCampaigns, status \in LifeStatuses :
        \E r \in KnownTargets(c) : update_target_status(c, r, status, EmptyDict, TRUE)

NextLife ==
    \/ NewManagerCall
    \/ CreateCampaignCall
    \/ UpdateCampaignCall
    \/ DeleteCampaignCall
    \/ CloneCampaignCall
    \/ LifeUpdateTargetStatusCall

SpecLife == InitLife /\ [][NextLife]_vars

\* creation, cloning and target updates alone
NextIds ==
    \/ CreateCampaignCall
    \/ CloneCampaignCall
    \/ LifeUpdateTargetStatusCall

SpecIds == InitLife /\ [][NextIds]_vars

----------------------------------------------------------------------------
(* app.py: cloning a campaign of the session *)

\* the reset loop of clone_campaign on recipient i: a new uuid4 id, status
\* 'queued', and the keys send_ts, click_ts and track_url deleted (a deleted
\* key reads as None, a deleted track_url as the empty text)
ResetRecipient(recipient, recipient_id) ==
    [recipient EXCEPT !.id = recipient_id, !.status = "queued",
                      !.send_ts = None, !.click_ts = None, !.track_url = Empty]

\* clone_campaign(campaign_id): original.copy() is a new dict whose
\* 'recipients' key points at the list of the original, so the reset loop
\* runs over the dicts every campaign sharing that list holds
app_clone_campaign(campaign_id, write_ok) ==
    IF campaign_id \notin DOMAIN campaigns
    THEN /\ last' = [op |-> "app_clone_campaign", cid |-> campaign_id, rid |-> Empty,
                     ret |-> FALSE]
         /\ UNCHANGED <<idle, now, campaigns_file, clicks_data, clicks_file, uuid_next,
                        campaigns>>
    ELSE LET original == campaigns[campaign_id]
             n == Len(original.recipients)
             new_id == Uuid(uuid_next + 1)
             recipients == [i \in 1..n |->
                               ResetRecipient(original.recipients[i],
                                              Uuid(uuid_next + 1 + i))]
             new_campaign == [original EXCEPT
                                 !.id = new_id,
                                 !.name = <<"Copy of ">> \o original.name,
                                 !.status = "draft",
                                 !.recipients = recipients]
         IN  /\ uuid_next + 1 + n <= MaxUuids
             /\ Cardinality(DOMAIN campaigns) < MaxCampaigns
             /\ uuid_next' = uuid_next + 1 + n
             /\ campaigns' = Put([c \in DOMAIN campaigns |->
                                     IF refs[c] = refs[campaign_id]
                                     THEN [campaigns[c] EXCEPT !.recipients = recipients]
                                     ELSE campaigns[c]],
                                 new_id, new_campaign)
             /\ refs' = Put(refs, new_id, refs[campaign_id])
             /\ campaigns_file' = save_campaigns(campaigns', write_ok)
             /\ last' = [op |-> "app_clone_campaign", cid |-> campaign_id,
                         rid |-> Empty, ret |-> TRUE]
             /\ UNCHANGED <<signer, procs, links, other_clicks_data, now, clicks_data,
                            clicks_file>>

\* the "Clone" button of a campaign listed on the dashboard
AppCloneCampaignCall ==
    \E c \in DOMAIN campaigns, write_ok \in BOOLEAN : app_clone_campaign(c, write_ok)

\* a session over a stored campaign whose targets have their tracking URLs
NextApp ==
    \/ Tick
    \/ InitSessionStateCall
    \/ AppCloneCampaignCall
    \/ TrackClickRequest

SpecApp == InitSend /\ [][NextApp]_vars

----------------------------------------------------------------------------
(* The recorders side by side: the tracking endpoint, the TrackingService  *)
(* and a CampaignManager over one data directory                           *)

CidM == <<"m", "1">>

\* campaigns.json holds a campaign of the session, draft or active, and one
\* the manager created; the manager has loaded the file
InitFrame ==
    /\ now = 0
    /\ \E sent \in BOOLEAN :
           campaigns_file =
               (Cid1 :> NewCampaign(Cid1, sent, FALSE)) @@
               (CidM :> CreatedCampaign(CidM, <<NewTarget(Rid1, <<"a@example.com">>),
                                               NewTarget(Rid2, <<"b@example.com">>)>>))
    /\ campaigns = campaigns_file
    /\ clicks_data = <<>>
    /\ clicks_file = <<>>
    /\ uuid_next = 0
    /\ last = NoCall
    /\ signer = NoExchange
    /\ procs = NoRequests
    /\ links = {}
    /\ refs = OwnLists(campaigns)
    /\ other_clicks_data = <<>>

FrameTrackClickRequest ==
    \E p \in {<<Cid1, Rid1>>, <<Cid1, RidX>>}, write_ok \in BOOLEAN :
        TrackClick(p[1], p[2], generate_signature(p[1], p[2]), TRUE, write_ok)

FrameRecordClickCall == record_click(Cid1, Rid1, ClientIp, UserAgent, TRUE)

FrameRecordQuizCall == record_quiz_completion(Cid1, Rid1, MaxScore, TRUE)

FrameUpdateTargetStatusCall ==
    \E r \in {Rid1, RidX}, status \in {"clicked", "completed-quiz"} :
        update_target_status(CidM, r, status, EmptyDict, TRUE)

NextFrame ==
    \/ Tick
    \/ FrameTrackClickRequest
    \/ FrameRecordClickCall
    \/ FrameRecordQuizCall
    \/ FrameUpdateTargetStatusCall

SpecFrame == InitFrame /\ [][NextFrame]_vars

----------------------------------------------------------------------------
(* TrackingService.get_first_click_timestamp *)

\* min(...) over a non-empty set of numbers
Min(S) == CHOOSE x \in S : \A y \in S : x <= y

\* the events of clicks_data with these ids, whatever their kind, and the
\* smallest ts among them
get_first_click_timestamp(campaign_id, recipient_id) ==
    LET clicks == SelectSeq(clicks_data,
                      LAMBDA click : /\ click.campaign_id = campaign_id
                                     /\ click.recipient_id = recipient_id)
    IN  IF clicks = <<>> THEN None
        ELSE Some(Min({clicks[i].ts : i \in 1..Len(clicks)}))

----------------------------------------------------------------------------
(* Two TrackingService instances over one clicks.json *)

\* the next call goes to the other instance: clicks_data is the list of the
\* instance being called, other_clicks_data the list of the one at rest
OtherInstance ==
    /\ clicks_data' = other_clicks_data
    /\ other_clicks_data' = clicks_data
    /\ UNCHANGED <<signer, procs, links, refs, now, campaigns_file, clicks_file,
                   uuid_next, campaigns, last>>

\* the calls of the two instances; every write to clicks.json succeeds
TwoRecordClickCall ==
    \E p \in TrackedPairs : record_click(p[1], p[2], ClientIp, UserAgent, TRUE)

TwoRecordQuizCall ==
    \E p \in TrackedPairs, score \in 0..MaxScore :
        record_quiz_completion(p[1], p[2], score, TRUE)

\* both instances were constructed on the empty data directory of Init
NextTwo ==
    \/ Tick
    \/ OtherInstance
    \/ TwoRecordClickCall
    \/ TwoRecordQuizCall

SpecTwo == Init /\ [][NextTwo]_vars

----------------------------------------------------------------------------
(* Claims about the click recorder and the target state machine *)

\* the stored target (campaign_id, recipient_id) of a campaigns dict, as a
\* set: empty when there is no such target
StoredTargets(dict, key, campaign_id, recipient_id) ==
    IF campaign_id \notin DOMAIN dict THEN {}
    ELSE {dict[campaign_id][key][i] :
            i \in {j \in 1..Len(dict[campaign_id][key]) :
                     dict[campaign_id][key][j].id = recipient_id}}

IsStoredTarget(campaign_id, recipient_id) ==
    StoredTargets(campaigns_file, "recipients", campaign_id, recipient_id) # {}

\* C1: a click whose signature does not verify for (campaign_id, recipient_id)
\* is rejected and changes nothing: no target's status or click_ts changes and
\* no event is appended.
C1_InvalidSignatureChangesNothing ==
    [][\A p \in RequestPairs, read_ok \in BOOLEAN, write_ok \in BOOLEAN :
         \A sig \in RequestSignatures(p[1], p[2]) :
            (/\ ~verify_signature(p[1], p[2], sig).value
             /\ TrackClick(p[1], p[2], sig, read_ok, write_ok))
            => /\ last'.ret = FALSE
               /\ campaigns_file' = campaigns_file
               /\ clicks_data' = clicks_data]_vars

\* C2: first click wins: once a target's click_ts is set, no later step changes
\* that target's click_ts or status.
C2_FirstClickWins ==
    [][\A i \in 1..Len(campaigns_file[Cid1].recipients) :
         LET before == campaigns_file[Cid1].recipients[i]
             after == campaigns_file'[Cid1].recipients[i]
         IN  before.click_ts # None =>
                 /\ after.click_ts = before.click_ts
                 /\ after.status = before.status]_vars

\* C3: a target that has reached completed-quiz is never moved back to clicked
\* or to an earlier status: such a request is rejected without mutating state.
C3_StatusNeverRegresses ==
    [][\A i \in 1..Len(campaigns[Cid1].targets) :
         campaigns[Cid1].targets[i].status = "completed-quiz" =>
             /\ campaigns'[Cid1].targets[i].status = "completed-quiz"
             /\ campaigns' = campaigns]_vars

\* C4: a quiz completion is recorded only for a target whose status is exactly
\* clicked; for any other target no quiz event is appended.
C4_QuizOnlyWhenClicked ==
    [][\A p \in TrackedPairs, score \in 0..MaxScore, write_ok \in BOOLEAN :
         record_quiz_completion(p[1], p[2], score, write_ok) =>
             \E t \in StoredTargets(campaigns_file, "recipients", p[1], p[2]) :
                 t.status = "clicked"]_vars

\* C5: a click for a pair that is no target of any stored campaign mutates
\* nothing: no event is appended and nothing is written to storage.
C5_UnknownTargetChangesNothing ==
    [][\A p \in TrackedPairs, ip \in {None, ClientIp}, write_ok \in BOOLEAN :
         (/\ ~IsStoredTarget(p[1], p[2])
          /\ record_click(p[1], p[2], ip, IF ip = None THEN None ELSE UserAgent,
                          write_ok))
         => /\ clicks_data' = clicks_data
            /\ clicks_file' = clicks_file
            /\ campaigns_file' = campaigns_file]_vars

\* C6: every accepted click appends exactly one ClickEvent to the event log
\* (and moves a queued or sent target to clicked).
C6_AcceptedClickAppendsOneEvent ==
    [][\A p \in RequestPairs, read_ok \in BOOLEAN, write_ok \in BOOLEAN :
         \A sig \in RequestSignatures(p[1], p[2]) :
            (/\ TrackClick(p[1], p[2], sig, read_ok, write_ok)
             /\ last'.ret = TRUE)
            => /\ Len(clicks_data') = Len(clicks_data) + 1
               /\ SubSeq(clicks_data', 1, Len(clicks_data)) = clicks_data]_vars

AllRequestsDone == \A i \in 1..Len(procs.req) : procs.req[i].pc = "done"

\* the click of request i is in the file
ClickPersisted(i) ==
    \E t \in StoredTargets(campaigns_file, "recipients",
                           procs.req[i].cid, procs.req[i].rid) :
        t.status = "clicked" /\ t.click_ts # None

C8_SuccessMeansWritten ==
    [][\A p \in RequestPairs, read_ok \in BOOLEAN, write_ok \in BOOLEAN :
         \A sig \in RequestSignatures(p[1], p[2]) :
            (/\ TrackClick(p[1], p[2], sig, read_ok, write_ok)
             /\ last'.ret = TRUE)
            => \E t \in StoredTargets(campaigns_file', "recipients", p[1], p[2]) :
                   /\ t.status = "clicked"
                   /\ t.click_ts = Some(now)]_vars

\* C9: unforgeability across pairs: a signature issued for (c', r') does not
\* verify for any other pair (c, r).
C9_SignatureBoundToPair ==
    (/\ signer.pc = "verified"
     /\ signer.issued # None
     /\ signer.presented = signer.issued
     /\ <<signer.campaign_id, signer.recipient_id>> #
            <<signer.signed_campaign, signer.signed_recipient>>)
    => signer.verdict[1].value = FALSE

\* C10: round trip: verify(c, r, sign(c, r)) is true, and for every other
\* signature string verify returns false and does not raise.
C10_RoundTripAndNeverRaises ==
    signer.pc = "verified" =>
        signer.verdict[1] =
            [raised |-> FALSE,
             value |-> (signer.presented[1] =
                          generate_signature(signer.campaign_id, signer.recipient_id))]

----------------------------------------------------------------------------
(* Claims about the signer and the tracking links *)

\* C11: signing is deterministic and link generation reproducible: every link
\* generated for one (campaign_id, recipient_id), at any time and in any state
\* of the service, carries the identical signature (and, with the same extra
\* parameters, is the identical URL), and every link generated earlier still
\* verifies.
C11_SigningIsDeterministic ==
    \A l1 \in links, l2 \in links :
        (l1.cid = l2.cid /\ l1.rid = l2.rid) =>
            /\ l1.sig = l2.sig
            /\ (l1.utm = l2.utm => l1.url = l2.url)
            /\ verify_signature(l1.cid, l1.rid, l2.sig) =
                   [raised |-> FALSE, value |-> TRUE]

\* C11: a link was generated again, later and after the service recorded a
\* click, for a pair that already had a link with the same extra parameters
C11_LinkRegenerated ==
    /\ last.op = "generate_tracking_url"
    /\ clicks_data # <<>>
    /\ \E l1 \in links, l2 \in links :
           /\ l1.cid = l2.cid /\ l1.rid = l2.rid /\ l1.utm = l2.utm
           /\ l1.cid = last.cid /\ l1.rid = last.rid
           /\ l1.at < l2.at

\* the caller's extra pairs, in order, as &key=value
RECURSIVE ExtraPairs(_)
ExtraPairs(extra) ==
    IF extra = <<>> THEN <<>>
    ELSE <<"&">> \o extra[1][1] \o <<"=">> \o extra[1][2] \o ExtraPairs(Tail(extra))

\* {base_url}?track=1&cid={campaign_id}&rid={recipient_id}&sig={hex_signature}
\* followed by the extra pairs
TrackingUrlForm(base_url, campaign_id, recipient_id, extra) ==
    base_url \o <<"?track=1&cid=">> \o campaign_id \o <<"&rid=">> \o recipient_id
        \o <<"&sig=">> \o HexText(generate_signature(campaign_id, recipient_id))
        \o ExtraPairs(extra)

\* C12: every tracking URL issued for a target, by the service or stored as a
\* target's track_url, has exactly the form
\* {base_url}?track=1&cid=..&rid=..&sig=sign(cid, rid) followed by the caller's
\* extra pairs in order.
C12_TrackingUrlHasTheForm ==
    /\ \A l \in links : l.url = TrackingUrlForm(ServiceBaseUrl, l.cid, l.rid, l.utm)
    /\ \A c \in DOMAIN campaigns_file :
           \A i \in 1..Len(campaigns_file[c].recipients) :
               campaigns_file[c].recipients[i].track_url =
                   TrackingUrlForm(BaseUrl, c, campaigns_file[c].recipients[i].id, None)

\* characters unsafe in a URL query component
UnsafeChars == {"&", "=", "#", " "}

Malformed(identifier) ==
    \/ identifier = Empty
    \/ \E i \in 1..Len(identifier) : identifier[i] \in UnsafeChars

InvalidIdentifier == <<"InvalidIdentifier">>

\* C13: link generation for an empty identifier, or one with a character
\* unsafe in a URL query component, fails with InvalidIdentifier and produces
\* no URL.
C13_MalformedIdentifierRejected ==
    [][\A p \in LinkPairs, utm_params \in UtmParams :
         (/\ Malformed(p[1]) \/ Malformed(p[2])
          /\ last'.op = "generate_tracking_url"
          /\ GenerateTrackingUrl(p[1], p[2], utm_params))
         => /\ last'.ret = InvalidIdentifier
            /\ links' = links]_vars

----------------------------------------------------------------------------
(* Claims about the metrics *)

SentOrLater == {"sent", "clicked", "completed-quiz"}

ClickedOrLater == {"clicked", "completed-quiz"}

\* clicked-or-later over sent-or-later, 0 when no target is sent-or-later
ClickRateOf(targets) ==
    IF CountStatus(targets, SentOrLater) = 0 THEN Zero
    ELSE Fraction(CountStatus(targets, ClickedOrLater), CountStatus(targets, SentOrLater))

\* C14: for every target list the computed click_rate equals the number of
\* targets at clicked or completed-quiz divided by the number at sent, clicked
\* or completed-quiz, and is 0 when that denominator is 0.
C14_ClickRateIsClickedOverSent ==
    /\ last.op = "update_metrics" =>
           last.metrics.click_rate = ClickRateOf(campaigns[Cid1].recipients)
    /\ last.op = "app.show_reports" =>
           last.metrics.click_rate = ClickRateOf(campaigns[Cid1].recipients)
    /\ last.op = "ui.show_reports" =>
           last.stats.click_rate = ClickRateOf(campaigns[Cid1].recipients)

\* C15: computing the metrics of a campaign with 0 targets yields click_rate,
\* quiz_completion_rate and avg_quiz_score all 0 and no division error,
\* whatever metrics the campaign held before.
C15_NoTargetsAllRatesZero ==
    (Len(campaigns[Cid1].recipients) = 0 /\ last.op \in {"update_metrics", "app.show_reports"})
    => /\ last.metrics = [click_rate |-> Zero, quiz_completion_rate |-> Zero,
                          avg_quiz_score |-> Zero]
       /\ last.op = "app.show_reports" => ~last.raised

IsCompleted(target) == target.status = "completed-quiz"

\* C16: avg_quiz_score is the mean of quiz_score over exactly the targets at
\* completed-quiz, 0 when there is none: no other target contributes and each
\* completed target contributes once.
C16_AvgIsMeanOverCompleted ==
    LET completed == SelectSeq(campaigns[Cid1].targets, IsCompleted)
    IN  (\A i \in 1..Len(completed) : completed[i].quiz_score # None) =>
            get_campaign_statistics(Cid1).avg_quiz_score =
                IF completed = <<>> THEN Zero
                ELSE Fraction(SumQuizScores(completed), Len(completed))

\* C17: the metrics never drift from the target list: after any sequence of
\* status updates the reported counts of sent, clicked and quiz-completed
\* targets are the numbers of targets now at sent-or-later, clicked-or-later
\* and completed-quiz.
C17_CountsFollowTargetList ==
    LET stats == get_campaign_statistics(Cid1)
        targets == campaigns[Cid1].targets
    IN  /\ stats.emails_sent = CountStatus(targets, SentOrLater)
        /\ stats.links_clicked = CountStatus(targets, ClickedOrLater)
        /\ stats.quizzes_completed = CountStatus(targets, {"completed-quiz"})

----------------------------------------------------------------------------
(* Claims about quiz completions and the send step *)

\* C18: a successful quiz completion for a clicked target appends exactly one
\* quiz event, sets the target's status to completed-quiz and stores the
\* submitted score as its quiz_score, all persisted.
C18_QuizCompletionUpdatesTarget ==
    [][\A score \in 0..QuizLength :
         (/\ \E t \in StoredTargets(campaigns_file, "recipients", Cid1, Rid1) :
                 t.status = "clicked"
          /\ record_quiz_completion(Cid1, Rid1, score, TRUE))
         => /\ Len(clicks_data') = Len(clicks_data) + 1
            /\ clicks_file' = clicks_data'
            /\ \E t \in StoredTargets(campaigns_file', "recipients", Cid1, Rid1) :
                   /\ t.status = "completed-quiz"
                   /\ t.quiz_score = Some(score)]_vars

\* C19: a quiz completion whose score lies outside 0..max_score of the quiz is
\* rejected as InvalidScore with no mutation: no quiz event is appended and no
\* target changes.
C19_InvalidScoreChangesNothing ==
    [][\A score \in SubmittedScores \ (0..QuizLength) :
         record_quiz_completion(Cid1, Rid1, score, TRUE)
         => /\ clicks_data' = clicks_data
            /\ clicks_file' = clicks_file
            /\ campaigns_file' = campaigns_file]_vars

\* the statuses the send step assigns
SendStatuses == {"sent", "bounced", "failed"}

\* no target of the dict that is clicked or completed-quiz before the step has
\* a send status after it
SendKeepsClicked(before, after) ==
    \A c \in DOMAIN before \cap DOMAIN after :
        \A i \in 1..Len(before[c].recipients) :
            (/\ i <= Len(after[c].recipients)
             /\ before[c].recipients[i].status \in ClickedOrLater)
            => after[c].recipients[i].status \notin SendStatuses

\* C20: a target's status is set to sent, bounced or failed only when it is
\* queued or sent: the send step, run any number of times, never changes the
\* status of a target that is already clicked or completed-quiz, in the
\* session or in the stored campaigns.
C20_SendNeverResetsClicked ==
    [][/\ SendKeepsClicked(campaigns, campaigns')
       /\ SendKeepsClicked(campaigns_file, campaigns_file')]_vars

----------------------------------------------------------------------------
(* Claims about the event log *)

IsPrefix(a, b) == Len(a) <= Len(b) /\ SubSeq(b, 1, Len(a)) = a

\* C21: the event log is append-only: at every record_click and
\* record_quiz_completion call, also after the service was created again from
\* the persisted file, the log before the call is a prefix of the log after
\* it, in memory and in the file.
C21_EventLogIsAppendOnly ==
    [][last'.op \in {"record_click", "record_quiz_completion"} =>
          /\ IsPrefix(clicks_data, clicks_data')
          /\ IsPrefix(clicks_file, clicks_file')]_vars

----------------------------------------------------------------------------
(* Claims about the campaign lifecycle *)

\* C22: a campaign's id is immutable: after create, update, clone, delete and
\* target-status operations every stored campaign's id field is the key it
\* is stored under, which is the id it was created with.
C22_CampaignIdIsImmutable ==
    /\ \A c \in DOMAIN campaigns : campaigns[c].id = c
    /\ \A c \in DOMAIN campaigns_file : campaigns_file[c].id = c

UniqueIds(targets) ==
    \A i, j \in 1..Len(targets) : targets[i].id = targets[j].id => i = j

C28_CloneIsIndependent ==
    [][/\ last'.op = "clone_campaign" =>
              \A c \in DOMAIN campaigns :
                  c \in DOMAIN campaigns' /\ campaigns'[c].targets = campaigns[c].targets
       /\ last'.op = "update_target_status" =>
              \A c \in DOMAIN campaigns \ {last'.cid} :
                  c \in DOMAIN campaigns' /\ campaigns'[c].targets = campaigns[c].targets]_vars

\* C23: a target's track_url is generated once and then stable: a stored
\* target that has a track_url has the same track_url after every step
\* (sending, clicking, cloning, a new session), in the session and in the
\* file.
C23_TrackUrlIsStable ==
    [][/\ \A c \in DOMAIN campaigns \cap DOMAIN campaigns' :
              \A i \in 1..Len(campaigns[c].recipients) :
                  campaigns[c].recipients[i].track_url # Empty =>
                      /\ i <= Len(campaigns'[c].recipients)
                      /\ campaigns'[c].recipients[i].track_url =
                             campaigns[c].recipients[i].track_url
       /\ \A c \in DOMAIN campaigns_file \cap DOMAIN campaigns_file' :
              \A i \in 1..Len(campaigns_file[c].recipients) :
                  campaigns_file[c].recipients[i].track_url # Empty =>
                      /\ i <= Len(campaigns_file'[c].recipients)
                      /\ campaigns_file'[c].recipients[i].track_url =
                             campaigns_file[c].recipients[i].track_url]_vars

RecorderOps == {"track_click", "record_click", "record_quiz_completion",
                "update_target_status"}

SameCampaignStatus(before, after) ==
    \A c \in DOMAIN before : c \in DOMAIN after /\ after[c].status = before[c].status

----------------------------------------------------------------------------
(* Claims about the results of the recorder and of the log queries *)

\* C26: the click recorder returns first-click = true exactly for the first
\* accepted click on a target and false for later ones: a request that is
\* answered with true found the target without a click_ts.
C26_TrueOnlyForFirstClick ==
    [][\A p \in RequestPairs, read_ok \in BOOLEAN, write_ok \in BOOLEAN :
         \A sig \in RequestSignatures(p[1], p[2]) :
            (/\ last'.op = "track_click"
             /\ TrackClick(p[1], p[2], sig, read_ok, write_ok)
             /\ last'.ret = TRUE)
            => \A t \in StoredTargets(campaigns_file, "recipients", p[1], p[2]) :
                   t.click_ts = None]_vars

\* the ts values of the click events recorded for the pair
ClickTimes(campaign_id, recipient_id) ==
    {clicks_data[i].ts : i \in {j \in 1..Len(clicks_data) :
        /\ clicks_data[j].campaign_id = campaign_id
        /\ clicks_data[j].recipient_id = recipient_id
        /\ clicks_data[j].event_type = None}}

\* C27: get_first_click_timestamp returns None when no click event is
\* recorded for the (campaign_id, recipient_id) pair, and otherwise the
\* smallest ts among the click events of that pair, after any sequence of
\* record_click and record_quiz_completion calls.
C27_FirstClickTimestampIsEarliestClick ==
    \A p \in TrackedPairs :
        get_first_click_timestamp(p[1], p[2]) =
            IF ClickTimes(p[1], p[2]) = {} THEN None
            ELSE Some(Min(ClickTimes(p[1], p[2])))

----------------------------------------------------------------------------
(* Claims about concurrent sessions and instances *)

\* C29: a persisted click is never lost to an admin session: a target that
\* the file holds with a click_ts keeps its click_ts and a status of clicked
\* or later in the file over every step, the saves of a session that loaded
\* before the click included.
C29_PersistedClickIsKept ==
    [][\A c \in DOMAIN campaigns_file :
         \A i \in 1..Len(campaigns_file[c].recipients) :
             campaigns_file[c].recipients[i].click_ts # None =>
                 /\ c \in DOMAIN campaigns_file'
                 /\ i <= Len(campaigns_file'[c].recipients)
                 /\ campaigns_file'[c].recipients[i].click_ts # None
                 /\ campaigns_file'[c].recipients[i].status \in ClickedOrLater]_vars

Events(log) == {log[i] : i \in 1..Len(log)}

\* C30: with two TrackingService instances sharing one clicks file, every
\* event recorded by either instance remains in the persisted log, under
\* every interleaving of their record calls.
C30_EveryRecordedEventIsPersisted ==
    Events(clicks_data) \cup Events(other_clicks_data) \subseteq Events(clicks_file)

====
